---------------------------- MODULE Spec2Model ----------------------------
(***************************************************************************)
(* Model of airdrop_eligibility_scout.py.                                  *)
(*                                                                         *)
(* Python strings are sequences of one-character strings, so that          *)
(* str.lower, str.strip, str.startswith, len, int(str) and the ADDR_RE     *)
(* match are computed character by character.  A JSON null and a missing   *)
(* dictionary key are the one-element sequences Null and Absent, whose     *)
(* single element is no character.  A JSON number that Python reads as an  *)
(* int is the sequence JsonInt(big, lo).                                    *)
(***************************************************************************)
EXTENDS Integers, Sequences, FiniteSets, TLC

VARIABLES
    pc,          \* position of the run
    txs,         \* the transaction list at hand (value returned by fetch_txlist)
    bal,         \* the balance at hand (value returned by fetch_balance), in milli-units
    thr,         \* args.min_balance, min_tx, min_contracts, min_days
    out,         \* value returned by the function under analysis
    inputs,      \* args.addresses
    fs,          \* the files os.path.isfile / open can see: path -> lines
    requestsOk,  \* the module-level 'requests' is not None
    jsonOut,     \* args.json_out is non-empty
    addrs,       \* main's addrs
    idx,         \* number of addresses the for loop of main has finished
    res,         \* main's res
    log,         \* history: explorer calls and pacing delays, in order
    written      \* the JSON document written to args.json_out, or NoDoc

vars == <<pc, txs, bal, thr, out, inputs, fs, requestsOk, jsonOut, addrs, idx, res, log, written>>

-----------------------------------------------------------------------------
(* Bounds *)

MaxTxs == 3
MaxScoreTxs == 5
MaxInputs == 3
MaxMainInputs == 2

(* Program constants *)

SECONDS_PER_DAY == 86400
ADDR_HEX_LEN == 40

-----------------------------------------------------------------------------
(* Python values *)

Absent == <<"ABSENT">>
Null == <<"NULL">>
NoDoc == <<"NODOC">>

Str(s) == [i \in 1..Len(s) |-> s[i]]

Rep(c, n) == [i \in 1..n |-> c]

Max(a, b) == IF a >= b THEN a ELSE b

RECURSIVE SeqsUpTo(_, _)
SeqsUpTo(S, n) ==
    IF n = 0 THEN {<<>>}
    ELSE LET shorter == SeqsUpTo(S, n - 1)
         IN  shorter \cup {Append(s, x) : s \in {t \in shorter : Len(t) = n - 1}, x \in S}

\* str.lower() on one character
LowerChar(c) ==
    CASE c = "A" -> "a" [] c = "B" -> "b" [] c = "C" -> "c" [] c = "D" -> "d"
      [] c = "E" -> "e" [] c = "F" -> "f" [] c = "G" -> "g" [] c = "X" -> "x"
      [] OTHER -> c

\* str.lower()
Lower(s) == [i \in 1..Len(s) |-> LowerChar(s[i])]

IsSpace(c) == c \in {" ", "\n", "\t"}

RECURSIVE LStrip(_)
LStrip(s) == IF s # <<>> /\ IsSpace(Head(s)) THEN LStrip(Tail(s)) ELSE s

RECURSIVE RStrip(_)
RStrip(s) ==
    IF s # <<>> /\ IsSpace(s[Len(s)]) THEN RStrip(SubSeq(s, 1, Len(s) - 1)) ELSE s

\* str.strip()
Strip(s) == RStrip(LStrip(s))

\* str.startswith(p)
StartsWith(s, p) == Len(s) >= Len(p) /\ SubSeq(s, 1, Len(p)) = p

\* t.get(key) or ""
OrEmpty(v) == IF v \in {Absent, Null} THEN <<>> ELSE v

-----------------------------------------------------------------------------
(* Python integers.  An int is [big |-> k, lo |-> v], the number            *)
(* k * 10^400 + v: Python's integers are unbounded, and 10^400 stands for   *)
(* the magnitudes whose quotient by 86400 no float can hold.                *)

JsonInt(big, lo) == <<"INT", big, lo>>

\* isinstance(v, int) for a value of the decoded JSON
IsJsonInt(v) == Len(v) = 3 /\ v[1] = "INT"

Digits == <<"0", "1", "2", "3", "4", "5", "6", "7", "8", "9">>

IsDigit(c) == \E i \in 1..10 : Digits[i] = c

DigitVal(c) == (CHOOSE i \in 1..10 : Digits[i] = c) - 1

RECURSIVE DigitsValue(_)
DigitsValue(s) ==
    IF s = <<>> THEN 0 ELSE 10 * DigitsValue(SubSeq(s, 1, Len(s) - 1)) + DigitVal(s[Len(s)])

\* the JSON number 1e400 written out as an integer literal (a 1 and 400 zeros),
\* which json decodes to the int 10^400
JsonHuge == JsonInt(1, 0)

\* int(s) for a str s: surrounding whitespace and one sign are accepted, then
\* decimal digits only.  The literals of the model have at most 9 digits.
ParseIntStr(s) ==
    LET t == Strip(s)
        signed == t # <<>> /\ Head(t) \in {"+", "-"}
        body == IF signed THEN Tail(t) ELSE t
        sign == IF signed /\ Head(t) = "-" THEN -1 ELSE 1
    IN  IF body = <<>> \/ \E i \in 1..Len(body) : ~IsDigit(body[i])
        THEN [exc |-> "ValueError", big |-> 0, lo |-> 0]
        ELSE [exc |-> "none", big |-> 0, lo |-> sign * DigitsValue(body)]

\* int(t["timeStamp"]): KeyError for a missing key, TypeError for None, the
\* number itself for an int
TimeStampInt(t) ==
    IF t.timeStamp = Absent THEN [exc |-> "KeyError", big |-> 0, lo |-> 0]
    ELSE IF t.timeStamp = Null THEN [exc |-> "TypeError", big |-> 0, lo |-> 0]
    ELSE IF IsJsonInt(t.timeStamp)
    THEN [exc |-> "none", big |-> t.timeStamp[2], lo |-> t.timeStamp[3]]
    ELSE ParseIntStr(t.timeStamp)

TruncDaysAbs(x) == IF x >= 0 THEN x \div SECONDS_PER_DAY ELSE (-x) \div SECONDS_PER_DAY

\* int(x / 86400) for an int x of small magnitude: the float quotient truncated
\* toward zero
TruncDays(x) ==
    IF x >= 0 THEN x \div SECONDS_PER_DAY ELSE -((-x) \div SECONDS_PER_DAY)

\* 'except Exception' of analyze_interactions
ExceptCatchesValueErrorOnly(exc) == exc = "ValueError"

ExceptCatches(exc) == exc \in {"KeyError", "TypeError", "ValueError", "OverflowError"}

DaysTryNoFloorOne(txs_) ==
    LET t0 == TimeStampInt(txs_[1])
        t1 == TimeStampInt(txs_[Len(txs_)])
    IN  IF t0.exc # "none" THEN [exc |-> t0.exc, days |-> 0]
        ELSE IF t1.exc # "none" THEN [exc |-> t1.exc, days |-> 0]
        ELSE IF t1.big - t0.big # 0 THEN [exc |-> "OverflowError", days |-> 0]
        ELSE [exc |-> "none", days |-> TruncDays(t1.lo - t0.lo)]

\* the try block of analyze_interactions on a non-empty list: the exception it
\* raises ("none" when it completes) and the value it assigns to days
DaysTry(txs_) ==
    LET t0 == TimeStampInt(txs_[1])
        t1 == TimeStampInt(txs_[Len(txs_)])
    IN  IF t0.exc # "none" THEN [exc |-> t0.exc, days |-> 0]
        ELSE IF t1.exc # "none" THEN [exc |-> t1.exc, days |-> 0]
        ELSE IF t1.big - t0.big # 0 THEN [exc |-> "OverflowError", days |-> 0]
        ELSE [exc |-> "none", days |-> Max(1, TruncDays(t1.lo - t0.lo))]

\* the contract interaction heuristic on one transaction
IsInteraction(t) ==
    /\ StartsWith(Lower(OrEmpty(t.to)), <<"0", "x">>)
    /\ Len(OrEmpty(t.input)) > 2

ContractsCaseSensitive(txs_) ==
    {OrEmpty(txs_[i].to) : i \in {j \in 1..Len(txs_) : IsInteraction(txs_[j])}}

\* the set 'contracts' after the for loop
Contracts(txs_) ==
    {Lower(OrEmpty(txs_[i].to)) : i \in {j \in 1..Len(txs_) : IsInteraction(txs_[j])}}

TxCountOffByOne(txs_) == IF Len(txs_) = 0 THEN 0 ELSE Len(txs_) - 1

TxCount(txs_) == Len(txs_)

\* analyze_interactions(txs): exc is the exception that leaves the function
\* ("none" when it returns)
analyze_interactions(txs_) ==
    LET try == IF TxCount(txs_) # 0 THEN DaysTry(txs_) ELSE [exc |-> "none", days |-> 0]
        caught == try.exc # "none" /\ ExceptCatches(try.exc)
    IN  [exc |-> IF caught THEN "none" ELSE try.exc,
         tx_count |-> TxCount(txs_),
         unique_contracts |-> Cardinality(Contracts(txs_)),
         active_days |-> IF try.exc # "none" THEN 0 ELSE try.days]

-----------------------------------------------------------------------------
(* Inputs of the analysis *)

ToValues ==
    {Absent, <<>>, Str(<<"0", "x", "a">>), Str(<<"0", "x", "A">>),
     Str(<<"0", "X", "b">>), Str(<<"a", "b">>)}

InputValues == {Absent, Str(<<"0", "x">>), Str(<<"0", "x", "1">>)}

TsZero == <<"0">>
TsAlmostDay == <<"8", "6", "3", "9", "9">>
TsTwoDays == <<"1", "7", "2", "8", "0", "0">>
TsBad == <<"1", "x">>

TsValues == {Absent, Null, TsBad, TsZero, TsAlmostDay, TsTwoDays, JsonHuge}

Tx(to, input, ts) == [to |-> to, input |-> input, timeStamp |-> ts]

TxValues ==
    {Tx(to, input, TsZero) : to \in ToValues, input \in InputValues}
    \cup {Tx(Str(<<"0", "x", "a">>), Str(<<"0", "x", "1">>), ts) : ts \in TsValues}

NoOut == [exc |-> "unset"]

Idle ==
    /\ bal = 0
    /\ thr = [min_balance |-> 0, min_tx |-> 0, min_contracts |-> 0, min_days |-> 0]
    /\ inputs = <<>>
    /\ fs = <<>>
    /\ requestsOk = TRUE
    /\ jsonOut = FALSE
    /\ addrs = <<>>
    /\ idx = 0
    /\ res = <<>>
    /\ log = <<>>
    /\ written = NoDoc

-----------------------------------------------------------------------------
(* analyze_interactions as a one-step program *)

InitAnalyze ==
    /\ pc = "analyze"
    /\ txs \in SeqsUpTo(TxValues, MaxTxs)
    /\ out = NoOut
    /\ Idle

Analyze ==
    /\ pc = "analyze"
    /\ out' = analyze_interactions(txs)
    /\ pc' = "analyzed"
    /\ UNCHANGED <<txs, bal, thr, inputs, fs, requestsOk, jsonOut, addrs, idx, res, log, written>>

NextAnalyze == Analyze

SpecAnalyze == InitAnalyze /\ [][NextAnalyze]_vars


-----------------------------------------------------------------------------
(* Properties of analyze_interactions *)

First(s) == s[1]
Last(s) == s[Len(s)]

\* the timestamp of t is present and is an integer or an integer literal
TsParses(t) == TimeStampInt(t).exc = "none"

\* both value parts of the difference last - first
DiffBig(s) == TimeStampInt(Last(s)).big - TimeStampInt(First(s)).big
DiffLo(s) == TimeStampInt(Last(s)).lo - TimeStampInt(First(s)).lo

\* floor(x / 86400)
FloorDays(x) == x \div SECONDS_PER_DAY

\* the list with every timestamp replaced by a well-formed one
WellFormed(s) == [i \in 1..Len(s) |-> Tx(s[i].to, s[i].input, TsZero)]

\* C2 (as stated): active_days is 0 only for the empty list; for every
\* non-empty list it is at least 1.
C2_Original ==
    pc = "analyzed" =>
        /\ txs = <<>> => out.active_days = 0
        /\ txs # <<>> => out.active_days >= 1

\* C2 (amended): active_days is 0 exactly when the list is empty or the day
\* computation fails: the timestamp of the first or last element is missing,
\* null or no integer literal, or the difference is too large to divide as a
\* float.  In every other case it is at least 1, also when both timestamps
\* fall on the same day.
C2_ActiveDaysZeroOnlyWhenEmptyOrFailed ==
    pc = "analyzed" =>
        LET failed == txs # <<>> /\ (~TsParses(First(txs)) \/ ~TsParses(Last(txs))
                                        \/ DiffBig(txs) # 0)
        IN  /\ out.exc = "none"
            /\ (txs = <<>> \/ failed) => out.active_days = 0
            /\ ~(txs = <<>> \/ failed) => out.active_days >= 1

C2_Witness ==
    /\ pc = "analyzed"
    /\ Len(txs) = 2
    /\ First(txs).timeStamp = TsZero
    /\ Last(txs).timeStamp = TsAlmostDay
    /\ out.active_days = 1

\* C3 (as stated): unique_contracts is the number of distinct lower-cased
\* destinations of the transactions whose input is longer than 2 characters,
\* whatever the destination looks like.
C3_Original ==
    pc = "analyzed" =>
        out.unique_contracts =
            Cardinality({Lower(OrEmpty(txs[i].to)) :
                            i \in {j \in 1..Len(txs) : Len(OrEmpty(txs[j].input)) > 2}})

\* C3 (amended): unique_contracts is the number of distinct lower-cased
\* destinations of the transactions whose lower-cased destination starts with
\* "0x" and whose input is longer than 2 characters; destinations that differ
\* only in letter case count once.
C3_UniqueContractsCountsPrefixedDestinations ==
    pc = "analyzed" =>
        LET counted == {j \in 1..Len(txs) :
                            /\ Len(OrEmpty(txs[j].input)) > 2
                            /\ Len(OrEmpty(txs[j].to)) >= 2
                            /\ LowerChar(txs[j].to[1]) = "0"
                            /\ LowerChar(txs[j].to[2]) = "x"}
        IN  out.unique_contracts = Cardinality({Lower(txs[i].to) : i \in counted})

C3_Witness ==
    /\ pc = "analyzed"
    /\ Len(txs) = 3
    /\ \A i \in 1..3 : txs[i].input = Str(<<"0", "x", "1">>)
    /\ txs[1].to = Str(<<"0", "x", "a">>)
    /\ txs[2].to = Str(<<"a", "b">>)
    /\ txs[3].to = Str(<<"0", "x", "A">>)
    /\ out.unique_contracts = 1

\* C5: on a non-empty list whose first or last timestamp is missing, null or
\* malformed, analyze_interactions returns (raises nothing) with
\* active_days = 0, and tx_count and unique_contracts are those of the same
\* records with well-formed timestamps.
C5_BadTimestampDegradesToZero ==
    (pc = "analyzed" /\ txs # <<>> /\ (~TsParses(First(txs)) \/ ~TsParses(Last(txs)))) =>
        /\ out.exc = "none"
        /\ out.active_days = 0
        /\ out.tx_count = analyze_interactions(WellFormed(txs)).tx_count
        /\ out.unique_contracts = analyze_interactions(WellFormed(txs)).unique_contracts

C5_Witness ==
    /\ pc = "analyzed"
    /\ Len(txs) = 2
    /\ First(txs).timeStamp = TsZero
    /\ Last(txs).timeStamp = Absent
    /\ First(txs).to = Str(<<"0", "X", "b">>)
    /\ First(txs).input = Str(<<"0", "x", "1">>)
    /\ out.exc = "none"
    /\ out.active_days = 0
    /\ out.tx_count = 2
    /\ out.unique_contracts = 2

\* C8: tx_count is the length of the list and unique_contracts <= tx_count.
C8_UniqueContractsAtMostTxCount ==
    pc = "analyzed" =>
        /\ out.tx_count = Len(txs)
        /\ out.unique_contracts <= out.tx_count

C8_Witness ==
    /\ pc = "analyzed"
    /\ Len(txs) = 2
    /\ out.unique_contracts = 2
    /\ out.tx_count = 2

\* C9 (as stated): active_days is 0 for the empty list and otherwise, when the
\* first and last timestamps are integers, max(1, floor((last - first) / 86400))
\* of the first and last elements as given.  (For a difference beyond the
\* model's exact range the stated value is at least 1.)
C9_Original ==
    pc = "analyzed" =>
        /\ txs = <<>> => out.active_days = 0
        /\ (txs # <<>> /\ TsParses(First(txs)) /\ TsParses(Last(txs))) =>
               IF DiffBig(txs) = 0
               THEN out.active_days = Max(1, FloorDays(DiffLo(txs)))
               ELSE out.active_days >= 1

\* C9 (amended): as stated, provided the quotient (last - first) / 86400 is
\* within the range of a float; when it is not, active_days is 0.
C9_ActiveDaysFromEndElements ==
    pc = "analyzed" =>
        /\ txs = <<>> => out.active_days = 0
        /\ (txs # <<>> /\ TsParses(First(txs)) /\ TsParses(Last(txs))) =>
               IF DiffBig(txs) = 0
               THEN out.active_days = Max(1, FloorDays(DiffLo(txs)))
               ELSE out.active_days = 0

C9_Witness ==
    /\ pc = "analyzed"
    /\ Len(txs) = 3
    /\ txs[1].timeStamp = TsAlmostDay
    /\ txs[2].timeStamp = JsonHuge
    /\ txs[3].timeStamp = TsZero
    /\ out.active_days = 1


-----------------------------------------------------------------------------
(* score_address *)

AddrA == <<"0", "x">> \o Rep("a", ADDR_HEX_LEN)
AddrB == <<"0", "x">> \o Rep("b", ADDR_HEX_LEN)
AddrC == <<"0", "x">> \o Rep("c", ADDR_HEX_LEN)

EligibleStrict(bal_, a, thr_) ==
    /\ bal_ > thr_.min_balance
    /\ a.tx_count > thr_.min_tx
    /\ a.unique_contracts > thr_.min_contracts
    /\ a.active_days > thr_.min_days

\* the conjunction evaluated by score_address
Eligible(bal_, a, thr_) ==
    /\ bal_ >= thr_.min_balance
    /\ a.tx_count >= thr_.min_tx
    /\ a.unique_contracts >= thr_.min_contracts
    /\ a.active_days >= thr_.min_days

\* the record score_address returns once both fetches have returned bal_ and txs_
ScoreRecord(addr, bal_, txs_, thr_) ==
    LET a == analyze_interactions(txs_)
    IN  [address |-> addr,
         balance |-> bal_,
         tx_count |-> a.tx_count,
         contracts |-> a.unique_contracts,
         active_days |-> a.active_days,
         eligible |-> Eligible(bal_, a, thr_)]

\* balances and min_balance are in thousandths of the native unit
BalValues == {0, 50, 100}

Thresholds(b, t, c, d) == [min_balance |-> b, min_tx |-> t, min_contracts |-> c, min_days |-> d]

ZeroThresholds == Thresholds(0, 0, 0, 0)

\* the defaults of --min-balance, --min-tx, --min-contracts, --min-days
DefaultThresholds == Thresholds(50, 5, 3, 7)

ThrValues ==
    {Thresholds(b, t, c, d) : b \in {0, 50, 1000}, t \in {0, 1, 5, 100},
                              c \in {0, 2, 3}, d \in {0, 2, 7}}

ScoreTxValues ==
    {Tx(Str(<<"0", "x", "a">>), Str(<<"0", "x", "1">>), TsZero),
     Tx(Str(<<"0", "X", "b">>), Str(<<"0", "x", "1">>), TsTwoDays)}

InitScore ==
    /\ pc = "score"
    /\ txs \in SeqsUpTo(ScoreTxValues, MaxScoreTxs)
    /\ bal \in BalValues
    /\ thr \in ThrValues
    /\ out = NoOut
    /\ inputs = <<>>
    /\ fs = <<>>
    /\ requestsOk = TRUE
    /\ jsonOut = FALSE
    /\ addrs = <<>>
    /\ idx = 0
    /\ res = <<>>
    /\ log = <<>>
    /\ written = NoDoc

Score ==
    /\ pc = "score"
    /\ out' = ScoreRecord(AddrA, bal, txs, thr)
    /\ pc' = "scored"
    /\ UNCHANGED <<txs, bal, thr, inputs, fs, requestsOk, jsonOut, addrs, idx, res, log, written>>

NextScore == Score

SpecScore == InitScore /\ [][NextScore]_vars

\* C4: eligible is true exactly when balance >= min_balance, tx_count >= min_tx,
\* unique_contracts >= min_contracts and active_days >= min_days, each inclusive
\* at equality.
C4_EligibleIsFourWayConjunction ==
    pc = "scored" =>
        /\ out.balance = bal
        /\ out.tx_count = Len(txs)
        /\ out.contracts = analyze_interactions(txs).unique_contracts
        /\ out.active_days = analyze_interactions(txs).active_days
        /\ out.eligible =
               (/\ out.balance >= thr.min_balance
                /\ out.tx_count >= thr.min_tx
                /\ out.contracts >= thr.min_contracts
                /\ out.active_days >= thr.min_days)

\* the scenario of the claim: tx_count = 5, min_tx = 100, all other thresholds 0
C4_Witness ==
    /\ pc = "scored"
    /\ out.tx_count = 5
    /\ thr = Thresholds(0, 100, 0, 0)
    /\ out.eligible = FALSE


-----------------------------------------------------------------------------
(* load_addresses *)

IsHex(c) ==
    \/ IsDigit(c)
    \/ c \in {"a", "b", "c", "d", "e", "f", "A", "B", "C", "D", "E", "F"}

\* 0x[a-fA-F0-9]{40} over the whole of a
AddrCoreMatch(a) ==
    /\ Len(a) = 2 + ADDR_HEX_LEN
    /\ a[1] = "0"
    /\ a[2] = "x"
    /\ \A i \in 3..Len(a) : IsHex(a[i])

\* ADDR_RE.match(a): '$' also matches just before a final newline
AddrReMatch(a) ==
    \/ AddrCoreMatch(a)
    \/ a # <<>> /\ a[Len(a)] = "\n" /\ AddrCoreMatch(SubSeq(a, 1, Len(a) - 1))

\* os.path.isfile(x)
IsFile(fs_, x) == \E i \in 1..Len(fs_) : fs_[i].path = x

\* the lines read from open(x)
FileLines(fs_, x) == fs_[CHOOSE i \in 1..Len(fs_) : fs_[i].path = x].lines

RECURSIVE NonBlankStripped(_)
\* the stripped lines of a file that are not empty
NonBlankStripped(lines) ==
    IF lines = <<>> THEN <<>>
    ELSE LET s == Strip(Head(lines))
         IN  (IF s # <<>> THEN <<s>> ELSE <<>>) \o NonBlankStripped(Tail(lines))

RECURSIVE Candidates(_, _)
\* the list 'addrs' built by the first loop of load_addresses
Candidates(path_or_list, fs_) ==
    IF path_or_list = <<>> THEN <<>>
    ELSE LET x == Head(path_or_list)
         IN  (IF IsFile(fs_, x) THEN NonBlankStripped(FileLines(fs_, x)) ELSE <<x>>)
             \o Candidates(Tail(path_or_list), fs_)

\* "0x" + a[2:].lower()
Normalize(a) == <<"0", "x">> \o Lower(SubSeq(a, 3, Len(a)))

RECURSIVE Validated(_)
\* the list 'out' built by the second loop of load_addresses
Validated(cands) ==
    IF cands = <<>> THEN <<>>
    ELSE LET a == Strip(Head(cands))
         IN  (IF AddrReMatch(a) THEN <<Normalize(a)>> ELSE <<>>) \o Validated(Tail(cands))

DedupeNone(s) == s

RECURSIVE DedupeFrom(_, _)
DedupeFrom(s, seen) ==
    IF s = <<>> THEN <<>>
    ELSE IF Head(s) \in seen THEN DedupeFrom(Tail(s), seen)
    ELSE <<Head(s)>> \o DedupeFrom(Tail(s), seen \cup {Head(s)})

\* list(dict.fromkeys(out))
Dedupe(s) == DedupeFrom(s, {})

RaisesNever(out_) == FALSE

\* 'if not out: raise SystemExit(...)'
RaisesOnEmpty(out_) == out_ = <<>>

\* load_addresses(path_or_list): exc is the exception that leaves the function
load_addresses(path_or_list, fs_) ==
    LET out_ == Validated(Candidates(path_or_list, fs_))
    IN  IF RaisesOnEmpty(out_) THEN [exc |-> "SystemExit", value |-> <<>>]
        ELSE [exc |-> "none", value |-> Dedupe(out_)]

(* Inputs of the loader *)

ArgUpperA == <<"0", "x">> \o Rep("A", ADDR_HEX_LEN)
ArgSpacedB == <<" ", "0", "x">> \o Rep("B", ADDR_HEX_LEN) \o <<" ">>
ArgShort == <<"0", "x">> \o Rep("a", ADDR_HEX_LEN - 1)
ArgUpperPrefix == <<"0", "X">> \o Rep("a", ADDR_HEX_LEN)
ArgNotHex == <<"0", "x", "g">> \o Rep("a", ADDR_HEX_LEN - 1)
ListPath == Str(<<"l", ".", "t", "x", "t">>)

ArgValues == {AddrA, ArgUpperA, ArgSpacedB, ArgShort, ArgUpperPrefix, ArgNotHex, ListPath}

LineUpperC == <<"0", "x">> \o Rep("C", ADDR_HEX_LEN) \o <<"\n">>
LineSpacedA == <<" ", " ">> \o AddrA \o <<" ", "\n">>
LineJunk == Str(<<"j", "u", "n", "k", "\n">>)
LineBlank == <<"\n">>

File(path, lines) == [path |-> path, lines |-> lines]

FsValues ==
    {<<>>,
     <<File(ListPath, <<LineUpperC, LineBlank, LineSpacedA, LineJunk>>)>>,
     <<File(ListPath, <<LineJunk, LineBlank>>)>>,
     <<File(AddrA, <<LineJunk>>)>>}

NonEmptySeqsUpTo(S, n) == SeqsUpTo(S, n) \ {<<>>}

InitLoad ==
    /\ pc = "load_addresses"
    /\ inputs \in NonEmptySeqsUpTo(ArgValues, MaxInputs)
    /\ fs \in FsValues
    /\ out = NoOut
    /\ txs = <<>>
    /\ bal = 0
    /\ thr = ZeroThresholds
    /\ requestsOk = TRUE
    /\ jsonOut = FALSE
    /\ addrs = <<>>
    /\ idx = 0
    /\ res = <<>>
    /\ log = <<>>
    /\ written = NoDoc

LoadOnly ==
    /\ pc = "load_addresses"
    /\ out' = load_addresses(inputs, fs)
    /\ pc' = "loaded"
    /\ UNCHANGED <<txs, bal, thr, inputs, fs, requestsOk, jsonOut, addrs, idx, res, log, written>>

NextLoad == LoadOnly

SpecLoad == InitLoad /\ [][NextLoad]_vars

\* the index set of the candidates that are valid addresses once stripped
ValidIdx(cands) == {k \in 1..Len(cands) : AddrReMatch(Strip(cands[k]))}

\* the address a valid candidate denotes
Denotes(c) == Normalize(Strip(c))

IsLowerHex(c) == IsDigit(c) \/ c \in {"a", "b", "c", "d", "e", "f"}

FirstIdx(cands, e) ==
    CHOOSE k \in ValidIdx(cands) :
        /\ Denotes(cands[k]) = e
        /\ \A m \in ValidIdx(cands) : Denotes(cands[m]) = e => k <= m

-----------------------------------------------------------------------------
(* main *)

\* exceptions fetch_balance and fetch_txlist raise out of an explorer call:
\* raise_for_status (HTTPError), r.json() or int(data["result"]) (ValueError)
FetchErrors == {"HTTPError", "ValueError"}

MainBalValues == {50}

MainTxLists ==
    {<<>>,
     <<Tx(Str(<<"0", "x", "a">>), Str(<<"0", "x", "1">>), TsZero)>>}

MainThrValues == {ZeroThresholds, DefaultThresholds}

MainCatchesHTTPErrorOnly(exc) == exc = "HTTPError"

\* 'except Exception' of main: SystemExit is no Exception
MainCatches(exc) == exc # "SystemExit"

PacedAlways(exc) == TRUE

\* time.sleep(0.3) is the last statement of the try block: it runs only when
\* score_address raised nothing
Paced(exc) == exc = "none"

Call(kind, i, exc) == [ev |-> kind, i |-> i, exc |-> exc]

Pause(i) == [ev |-> "sleep", i |-> i, exc |-> "none"]

\* the record appended by the except clause
ErrorRecord(a, exc) == [address |-> a, error |-> exc, eligible |-> FALSE]

\* the statement reached once the loop body for the address at idx + 1 is over
AfterAddress == IF idx + 1 < Len(addrs) THEN "fetch_balance" ELSE "report"

InitMain ==
    /\ pc = "load"
    /\ inputs \in NonEmptySeqsUpTo(ArgValues, MaxMainInputs)
    /\ fs \in FsValues
    /\ requestsOk \in BOOLEAN
    /\ jsonOut \in BOOLEAN
    /\ thr \in MainThrValues
    /\ txs = <<>>
    /\ bal = 0
    /\ out = NoOut
    /\ addrs = <<>>
    /\ idx = 0
    /\ res = <<>>
    /\ log = <<>>
    /\ written = NoDoc

\* addrs = load_addresses(args.addresses); a SystemExit ends the run
Load ==
    /\ pc = "load"
    /\ LET r == load_addresses(inputs, fs)
       IN  IF r.exc # "none"
           THEN /\ pc' = "exit"
                /\ addrs' = addrs
           ELSE /\ addrs' = r.value
                /\ pc' = IF r.value = <<>> THEN "report" ELSE "fetch_balance"
    /\ UNCHANGED <<txs, bal, thr, out, inputs, fs, requestsOk, jsonOut, idx, res, log, written>>

\* an exception raised inside the try block of the loop body, after the events
\* log_ : caught (error record, next address, with or without the pacing
\* delay) or propagated (the run ends)
Raised(exc, log_) ==
    IF MainCatches(exc)
    THEN /\ res' = Append(res, ErrorRecord(addrs[idx + 1], exc))
         /\ IF Paced(exc)
            THEN /\ pc' = "sleep"
                 /\ idx' = idx
            ELSE /\ pc' = AfterAddress
                 /\ idx' = idx + 1
         /\ log' = log_
    ELSE /\ pc' = IF exc = "SystemExit" THEN "exit" ELSE "crash"
         /\ log' = log_
         /\ UNCHANGED <<res, idx>>

\* ensure_requests() raises SystemExit before any request is sent
FetchBalanceNoRequests ==
    /\ pc = "fetch_balance"
    /\ ~requestsOk
    /\ Raised("SystemExit", log)
    /\ UNCHANGED <<txs, bal, thr, out, inputs, fs, requestsOk, jsonOut, addrs, written>>

\* bal = fetch_balance(chain, addr) returns
FetchBalanceOk ==
    /\ pc = "fetch_balance"
    /\ requestsOk
    /\ \E b \in MainBalValues : bal' = b
    /\ log' = Append(log, Call("balance", idx + 1, "none"))
    /\ pc' = "fetch_txlist"
    /\ UNCHANGED <<txs, thr, out, inputs, fs, requestsOk, jsonOut, addrs, idx, res, written>>

\* fetch_balance raises
FetchBalanceFail ==
    /\ pc = "fetch_balance"
    /\ requestsOk
    /\ \E e \in FetchErrors : Raised(e, Append(log, Call("balance", idx + 1, e)))
    /\ UNCHANGED <<txs, bal, thr, out, inputs, fs, requestsOk, jsonOut, addrs, written>>

\* txs = fetch_txlist(chain, addr) returns; score_address analyses, builds the
\* record and returns it, and main appends it to res
FetchTxlistOk ==
    /\ pc = "fetch_txlist"
    /\ \E t \in MainTxLists :
           /\ txs' = t
           /\ LET a == analyze_interactions(t)
                  log_ == Append(log, Call("txlist", idx + 1, "none"))
              IN  IF a.exc # "none"
                  THEN Raised(a.exc, log_)
                  ELSE /\ res' = Append(res, ScoreRecord(addrs[idx + 1], bal, t, thr))
                       /\ log' = log_
                       /\ IF Paced("none")
                          THEN /\ pc' = "sleep"
                               /\ idx' = idx
                          ELSE /\ pc' = AfterAddress
                               /\ idx' = idx + 1
    /\ UNCHANGED <<bal, thr, out, inputs, fs, requestsOk, jsonOut, addrs, written>>

\* fetch_txlist raises
FetchTxlistFail ==
    /\ pc = "fetch_txlist"
    /\ \E e \in FetchErrors : Raised(e, Append(log, Call("txlist", idx + 1, e)))
    /\ UNCHANGED <<txs, bal, thr, out, inputs, fs, requestsOk, jsonOut, addrs, written>>

\* time.sleep(0.3)
Sleep ==
    /\ pc = "sleep"
    /\ log' = Append(log, Pause(idx + 1))
    /\ idx' = idx + 1
    /\ pc' = AfterAddress
    /\ UNCHANGED <<txs, bal, thr, out, inputs, fs, requestsOk, jsonOut, addrs, res, written>>

\* the table is printed
Report ==
    /\ pc = "report"
    /\ pc' = IF jsonOut THEN "write_json" ELSE "done"
    /\ UNCHANGED <<txs, bal, thr, out, inputs, fs, requestsOk, jsonOut, addrs, idx, res, log, written>>

\* json.dump({"chain": ..., "results": res}, f)
WriteJson ==
    /\ pc = "write_json"
    /\ written' = [chain |-> "eth", results |-> res]
    /\ pc' = "done"
    /\ UNCHANGED <<txs, bal, thr, out, inputs, fs, requestsOk, jsonOut, addrs, idx, res, log>>

Next ==
    \/ Load
    \/ FetchBalanceNoRequests
    \/ FetchBalanceOk
    \/ FetchBalanceFail
    \/ FetchTxlistOk
    \/ FetchTxlistFail
    \/ Sleep
    \/ Report
    \/ WriteJson

Init == InitMain

Spec == Init /\ [][Next]_vars


-----------------------------------------------------------------------------
(* Properties of main *)

IsCall(e) == e.ev \in {"balance", "txlist"}

\* an explorer call for the i-th address raised
FetchFailed(i) == \E k \in 1..Len(log) : IsCall(log[k]) /\ log[k].i = i /\ log[k].exc # "none"

BatchOver == pc \in {"report", "write_json", "done"}

\* C1: an exception raised by the balance or transaction-list fetch of one
\* address never ends the run: it leaves an error record with eligible = FALSE
\* for that address, and the loop goes on.  res always holds one record per
\* address handled so far, in the order of addrs, and one record per loaded
\* address once the loop is over.
C1_FetchFailureYieldsErrorRecord ==
    /\ pc # "crash"
    /\ (pc = "exit" /\ addrs # <<>>) => ~requestsOk
    /\ Len(res) <= Len(addrs)
    /\ Len(res) \in {idx, idx + 1}
    /\ BatchOver => Len(res) = Len(addrs)
    /\ \A i \in 1..Len(res) :
           /\ res[i].address = addrs[i]
           /\ FetchFailed(i) <=> "error" \in DOMAIN res[i]
           /\ "error" \in DOMAIN res[i] => res[i].eligible = FALSE

C1_Witness ==
    /\ pc = "done"
    /\ Len(addrs) = 3
    /\ Len(res) = 3
    /\ "error" \in DOMAIN res[1]
    /\ "error" \notin DOMAIN res[2]
    /\ res[2].eligible = TRUE
    /\ "error" \in DOMAIN res[3]
    /\ log[1].ev = "balance" /\ log[1].exc # "none"
    /\ log[Len(log)].ev = "txlist" /\ log[Len(log)].exc # "none"

\* C7: when no input validates, the run ends at load_addresses: no explorer
\* call, no result record and no JSON document ever follows.
C7_NoFetchAfterFailedValidation ==
    ValidIdx(Candidates(inputs, fs)) = {} =>
        /\ pc \in {"load", "exit"}
        /\ addrs = <<>>
        /\ log = <<>>
        /\ res = <<>>
        /\ written = NoDoc

C7_Witness ==
    /\ pc = "exit"
    /\ ValidIdx(Candidates(inputs, fs)) = {}
    /\ requestsOk
    /\ jsonOut
    /\ log = <<>>
    /\ written = NoDoc

\* C10 (as stated): between any two consecutive explorer calls a pacing delay
\* occurs.
C10_Original ==
    \A k \in 1..(Len(log) - 1) : ~(IsCall(log[k]) /\ IsCall(log[k + 1]))

\* C10 (amended): a pacing delay occurs after each address whose balance and
\* transaction list were both fetched and which was scored, before the next
\* explorer call, and nowhere else: none between the balance fetch and the
\* transaction-list fetch of one address, none after a fetch that failed.
C10_PacingOnlyAfterScoredAddress ==
    /\ \A k \in 1..(Len(log) - 1) :
           /\ (log[k].ev = "txlist" /\ log[k].exc = "none") => log[k + 1] = Pause(log[k].i)
           /\ (log[k].ev = "balance" /\ log[k].exc = "none") =>
                  (log[k + 1].ev = "txlist" /\ log[k + 1].i = log[k].i)
           /\ (IsCall(log[k]) /\ log[k].exc # "none") =>
                  (log[k + 1].ev = "balance" /\ log[k + 1].i = log[k].i + 1)
    /\ \A k \in 1..Len(log) :
           log[k].ev = "sleep" =>
               k > 1 /\ log[k - 1].ev = "txlist" /\ log[k - 1].exc = "none"
    /\ (log # <<>> /\ log[Len(log)].ev = "txlist" /\ log[Len(log)].exc = "none") => pc = "sleep"

C10_Witness ==
    /\ pc = "done"
    /\ Len(log) = 6
    /\ Len(res) = 3
    /\ log[1].ev = "balance" /\ log[1].exc = "none"
    /\ log[2].ev = "txlist" /\ log[2].exc = "none"
    /\ log[3].ev = "sleep"
    /\ log[4].ev = "balance" /\ log[4].exc # "none"
    /\ log[5].ev = "balance" /\ log[5].exc = "none"
    /\ log[6].ev = "txlist" /\ log[6].exc # "none"

=============================================================================
